---- MODULE Spec2Model ----
(***************************************************************************)
(* Repository initialization workflow of claude-slash.                     *)
(*                                                                         *)
(* Two implementations of the same orchestration are modelled:             *)
(*   - GitHubInitCommand      (github_init_command.py), specification Spec *)
(*   - GitHubInitialization   (src/claude_slash/commands/github_init.py),  *)
(*     specification TyperSpec                                             *)
(* The world both act on is the process working directory, the local       *)
(* filesystem, the remote repository of the same name, and the log of      *)
(* every external effect (subprocess call, mkdir, write, chdir, existence  *)
(* check, recursive deletion, printed message) in the order it happened.   *)
(***************************************************************************)
EXTENDS Naturals, Sequences, FiniteSets

VARIABLES
    options,             \* self.options
    original_dir,        \* self.original_dir = os.getcwd() at construction
    before,              \* the directories and files on disk when the run starts
    github_repo_created, \* self.github_repo_created
    pc,                  \* position inside execute()
    exc,                 \* the step whose exception is propagating, or "none"
    cwd,                 \* process working directory (absolute path)
    dirs,                \* directories that exist (absolute paths)
    files,               \* files that exist (absolute paths)
    remote,              \* remote repository <repo_name>: "none", "preexisting", "created"
    events,              \* log of external effects, oldest first
    args,                \* the command line handed to parse_arguments
    config_file,         \* ~/.github-init.yaml and the YAML library
    answers,             \* what the user types at the prompts of interactive mode
    config,              \* what load_config_defaults() returned
    result,              \* what parse_arguments returned, once it has
    claude_dir,          \* ~/.claude: file name -> text of the file
    sections,            \* what _parse_claude_md_structure returned
    selected_section,    \* what _interactive_section_selection returned
    backup_path          \* what _create_backup returned

vars == <<options, original_dir, before, github_repo_created, pc, exc,
          cwd, dirs, files, remote, events, args, config_file, answers, config, result,
          claude_dir, sections, selected_section, backup_path>>

\* the state of the learn command
learn == <<claude_dir, sections, selected_section, backup_path>>

\* what a run of execute() never changes
fixed == <<options, original_dir, before, args, config_file, answers, config, result, learn>>

----------------------------------------------------------------------------
(* Bounds of the model *)

\* longest topic list a request carries
MaxTopics == 2

\* most option flags on one command line
MaxFlags == 2

\* most keys in one configuration file
MaxConfigKeys == 1

\* most characters in CLAUDE.md
MaxChars == 6

----------------------------------------------------------------------------
(* Paths and the event log *)

RepoName == "repo"

\* the directory the process is started in
StartDir == <<"work">>

TopicPool == <<"python", "test", "cli", "docs">>

IsPrefix(p, q) == Len(p) <= Len(q) /\ SubSeq(q, 1, Len(p)) = p

\* Path(rel) resolved against the working directory `at`
Resolve(at, rel) == at \o rel

\* shutil.rmtree(p): p and everything below it is gone
RmTree(S, p) == {q \in S : ~IsPrefix(p, q)}

PathExists(p) == p \in dirs \/ p \in files

RunEv(cmd, detail, ok, at) ==
    [op |-> "run", arg |-> cmd, detail |-> detail, ok |-> ok, cwd |-> at, path |-> <<>>]

FsEv(op, name, p, ok, at) ==
    [op |-> op, arg |-> name, detail |-> "", ok |-> ok, cwd |-> at, path |-> p]

PrintEv(tag, at) ==
    [op |-> "print", arg |-> tag, detail |-> "", ok |-> TRUE, cwd |-> at, path |-> <<>>]

\* one filesystem operation of a file-generating step
W(name, rel) == [kind |-> "write", name |-> name, rel |-> rel, parents |-> FALSE]
D(name, rel, parents) == [kind |-> "mkdir", name |-> name, rel |-> rel, parents |-> parents]

Opt(cond, ops) == IF cond THEN ops ELSE <<>>

\* directories a mkdir adds: the leaf, and with parents=True its ancestors below `at`
MkdirSet(op, at) ==
    IF op.parents
    THEN {Resolve(at, SubSeq(op.rel, 1, n)) : n \in 1..Len(op.rel)}
    ELSE {Resolve(at, op.rel)}

\* the first k operations of ops succeed; operation k+1, if any, raises
DirsAfter(ops, k, at) ==
    dirs \cup UNION {MkdirSet(ops[i], at) : i \in {j \in 1..k : ops[j].kind = "mkdir"}}

FilesAfter(ops, k, at) ==
    files \cup {Resolve(at, ops[i].rel) : i \in {j \in 1..k : ops[j].kind = "write"}}

OpEvents(ops, k, at) ==
    [i \in 1..(IF k < Len(ops) THEN k + 1 ELSE k) |->
        FsEv(ops[i].kind, ops[i].name, Resolve(at, ops[i].rel), i <= k, at)]

----------------------------------------------------------------------------
(* parse_arguments: command line and configuration file merged into options *)

\* Python None where a string, and where a list, is expected
NoneStr == "<None>"
NoneList == <<"<None>">>

\* keys load_config_defaults keeps (valid_keys)
ConfigKeys ==
    {"description", "private", "license", "gitignore", "readme", "default_branch",
     "topics", "create_website", "enable_dependabot", "create_project",
     "project_template", "enable_auto_version", "enable_auto_merge",
     "enable_claude_review", "enable_auto_release"}

\* argparse destinations of the option flags: --desc, --public, --license,
\* --gitignore, --no-readme, --branch, --topics, --create-website, --no-dependabot,
\* --dry-run, --no-project, --project-template, --no-auto-version, --no-auto-merge,
\* --enable-claude-review, --no-auto-release
OptionDests ==
    {"description", "public", "license", "gitignore", "readme", "default_branch",
     "topics", "create_website", "no_dependabot", "dry_run", "no_project",
     "project_template", "no_auto_version", "no_auto_merge",
     "enable_claude_review", "no_auto_release"}

\* the destination whose flag sets each config-backed option
FlagOf ==
    [description |-> "description", private |-> "public", license |-> "license",
     gitignore |-> "gitignore", readme |-> "readme",
     default_branch |-> "default_branch", topics |-> "topics",
     create_website |-> "create_website", enable_dependabot |-> "no_dependabot",
     create_project |-> "no_project", project_template |-> "project_template",
     enable_auto_version |-> "no_auto_version", enable_auto_merge |-> "no_auto_merge",
     enable_claude_review |-> "enable_claude_review",
     enable_auto_release |-> "no_auto_release"]

\* values the flags that take one can carry; --topics is its text cut at the commas
CliValues ==
    [description |-> "from the command line", license |-> "Apache-2.0",
     gitignore |-> "python", default_branch |-> "trunk",
     topics |-> <<"cli", "tools">>, project_template |-> "release"]

\* the same flags given with an empty text where argparse accepts one
CliEmptyValues ==
    [description |-> "", license |-> "MIT", gitignore |-> "node",
     default_branch |-> "", topics |-> <<"">>, project_template |-> "basic"]

\* values a configuration file can hold: every key differing from the default ...
ConfigValues ==
    [description |-> "from the config file", private |-> FALSE, license |-> "GPL-3.0",
     gitignore |-> "rust", readme |-> FALSE, default_branch |-> "develop",
     topics |-> <<"cfg">>, create_website |-> TRUE, enable_dependabot |-> FALSE,
     create_project |-> FALSE, project_template |-> "basic",
     enable_auto_version |-> FALSE, enable_auto_merge |-> FALSE,
     enable_claude_review |-> TRUE, enable_auto_release |-> FALSE]

\* ... and every key spelling out the default
ConfigDefaultValues ==
    [description |-> "", private |-> TRUE, license |-> "MIT",
     gitignore |-> "general", readme |-> TRUE, default_branch |-> "main",
     topics |-> <<>>, create_website |-> FALSE, enable_dependabot |-> TRUE,
     create_project |-> TRUE, project_template |-> "development",
     enable_auto_version |-> TRUE, enable_auto_merge |-> TRUE,
     enable_claude_review |-> FALSE, enable_auto_release |-> TRUE]

\* defaults of the GitHubInitOptions dataclass
HardDefault ==
    [description |-> NoneStr, private |-> TRUE, license |-> NoneStr,
     gitignore |-> NoneStr, readme |-> TRUE, default_branch |-> "main",
     topics |-> NoneList, create_website |-> FALSE, enable_dependabot |-> TRUE,
     create_project |-> TRUE, project_template |-> "development",
     enable_auto_version |-> TRUE, enable_auto_merge |-> TRUE,
     enable_claude_review |-> FALSE, enable_auto_release |-> TRUE]

\* parser.parse_args(args): the namespace argparse builds
Namespace(a) ==
    LET on(d) == d \in a.given
        text(d, default) == IF on(d) THEN a.val[d] ELSE default
    IN  [repo_name |-> IF on("repo_name") THEN "repo" ELSE NoneStr,
         interactive |-> on("interactive"),
         description |-> text("description", NoneStr),
         public |-> on("public"),
         license |-> text("license", NoneStr),
         gitignore |-> text("gitignore", NoneStr),
         readme |-> ~on("readme"),
         default_branch |-> text("default_branch", "main"),
         topics |-> text("topics", NoneList),
         create_website |-> on("create_website"),
         no_dependabot |-> on("no_dependabot"),
         dry_run |-> on("dry_run"),
         no_project |-> on("no_project"),
         project_template |-> text("project_template", "development"),
         no_auto_version |-> on("no_auto_version"),
         no_auto_merge |-> on("no_auto_merge"),
         enable_claude_review |-> on("enable_claude_review"),
         no_auto_release |-> on("no_auto_release")]

\* truth value Python gives a string or None
Truthy(x) == x \notin {NoneStr, ""}

\* config.get(key, default)
ConfigGet(c, key, default) == IF key \in c.present THEN c.val[key] ELSE default

\* parsed.topics.split(","): the text of --topics is held as its pieces already
SplitTopics(raw) == raw

\* hasattr(parsed, 'readme'): argparse sets every destination it declares
HasReadmeAttr == TRUE

\* the GitHubInitOptions(...) expression of parse_arguments
MergeOptions(parsed, c) ==
    [repo_name |-> parsed.repo_name,
     description |-> IF Truthy(parsed.description) THEN parsed.description
                     ELSE ConfigGet(c, "description", NoneStr),
     private |-> IF parsed.public THEN ~parsed.public
                 ELSE ConfigGet(c, "private", TRUE),
     license |-> IF Truthy(parsed.license) THEN parsed.license
                 ELSE ConfigGet(c, "license", NoneStr),
     gitignore |-> IF Truthy(parsed.gitignore) THEN parsed.gitignore
                   ELSE ConfigGet(c, "gitignore", NoneStr),
     readme |-> IF HasReadmeAttr THEN parsed.readme ELSE ConfigGet(c, "readme", TRUE),
     default_branch |-> IF Truthy(parsed.default_branch) THEN parsed.default_branch
                        ELSE ConfigGet(c, "default_branch", "main"),
     topics |-> IF parsed.topics \notin {NoneList, <<"">>} THEN SplitTopics(parsed.topics)
                ELSE ConfigGet(c, "topics", NoneList),
     create_website |-> IF parsed.create_website THEN TRUE
                        ELSE ConfigGet(c, "create_website", FALSE),
     enable_dependabot |-> IF parsed.no_dependabot THEN ~parsed.no_dependabot
                           ELSE ConfigGet(c, "enable_dependabot", TRUE),
     dry_run |-> parsed.dry_run,
     create_project |-> IF parsed.no_project THEN ~parsed.no_project
                        ELSE ConfigGet(c, "create_project", TRUE),
     project_template |-> IF Truthy(parsed.project_template) THEN parsed.project_template
                          ELSE ConfigGet(c, "project_template", "development"),
     enable_auto_version |-> IF parsed.no_auto_version THEN ~parsed.no_auto_version
                             ELSE ConfigGet(c, "enable_auto_version", TRUE),
     enable_auto_merge |-> IF parsed.no_auto_merge THEN ~parsed.no_auto_merge
                           ELSE ConfigGet(c, "enable_auto_merge", TRUE),
     enable_claude_review |-> IF parsed.enable_claude_review THEN TRUE
                              ELSE ConfigGet(c, "enable_claude_review", FALSE),
     enable_auto_release |-> IF parsed.no_auto_release THEN ~parsed.no_auto_release
                             ELSE ConfigGet(c, "enable_auto_release", TRUE)]

\* command lines: the repository name or not, --interactive or not, a few option
\* flags, and either kind of text for the flags that take one
ArgSpace ==
    {a \in {[given |-> m \cup S, val |-> v] :
                m \in {{"repo_name"}, {"repo_name", "interactive"}, {}},
                S \in {T \in SUBSET OptionDests : Cardinality(T) <= MaxFlags},
                v \in {CliValues, CliEmptyValues}} :
        a.val = CliEmptyValues => a.given \cap DOMAIN CliValues # {}}

ConfigSpace ==
    {c \in {[present |-> K, val |-> v] :
                K \in {T \in SUBSET ConfigKeys : Cardinality(T) <= MaxConfigKeys},
                v \in {ConfigValues, ConfigDefaultValues}} :
        c.val = ConfigDefaultValues => c.present # {}}

\* keys a configuration file can hold that load_config_defaults does not know
UnknownKeys == <<"owner", "template">>

\* the returned mapping when nothing was loaded
NoConfig == [present |-> {}, val |-> ConfigValues]

\* no ~/.github-init.yaml
NoConfigFile == [kind |-> "missing", present |-> {}, unknown |-> {}, val |-> ConfigValues]

\* the file and the library: a YAML mapping of recognised and unknown keys, or no
\* file, no PyYAML, a file that cannot be opened, text that is not YAML, an empty
\* document, a document that is not a mapping
ConfigFileSpace ==
    {[kind |-> "mapping", present |-> c.present, unknown |-> {}, val |-> c.val] :
        c \in ConfigSpace}
    \cup {[kind |-> "mapping", present |-> c.present, unknown |-> U, val |-> c.val] :
            c \in {d \in ConfigSpace : d.val = ConfigValues},
            U \in (SUBSET {UnknownKeys[i] : i \in DOMAIN UnknownKeys}) \ {{}}}
    \cup {[NoConfigFile EXCEPT !.kind = k] : k \in {"missing", "empty", "scalar"}}
    \cup {[NoConfigFile EXCEPT !.kind = k, !.present = {"license", "private"}] :
            k \in {"no_yaml", "unreadable", "malformed"}}

\* variant: every key of the file is kept
KeepKey_All(key) == TRUE

\* if key in valid_keys
KeepKey(key) == key \in ConfigKeys

\* variant: the keys written in the file are returned whatever happened to it
LoadConfigDefaults_Regardless(f) ==
    [present |-> {k \in f.present \cup f.unknown : KeepKey(k)}, val |-> f.val]

\* load_config_defaults: the mapping returned
LoadConfigDefaults(f) ==
    IF f.kind = "mapping"
    THEN [present |-> {k \in f.present \cup f.unknown : KeepKey(k)}, val |-> f.val]
    ELSE NoConfig

\* load_config_defaults: the warnings printed
LoadConfigWarnings(f, at) ==
    IF f.kind = "mapping"
    THEN LET dropped == SelectSeq(UnknownKeys, LAMBDA k : k \in f.unknown /\ ~KeepKey(k))
         IN  [i \in 1..Len(dropped) |->
                 [PrintEv("unknown_config_key", at) EXCEPT !.detail = dropped[i]]]
    ELSE IF f.kind = "no_yaml" THEN <<PrintEv("pyyaml_not_installed", at)>>
    ELSE IF f.kind \in {"unreadable", "malformed", "scalar"}
    THEN <<PrintEv("error_reading_config", at)>>
    ELSE <<>>

\* the prompts of interactive mode: which ones the user answers (the others get an
\* empty line), the text typed, yes or no at the answered yes/no prompts, and the
\* answer to the final confirmation
NoAnswers == [given |-> {}, val |-> CliValues, yes |-> TRUE, confirm |-> TRUE]

AnswerSpace ==
    {a \in [given : {{}} \cup {{k} : k \in ConfigKeys}, val : {CliValues},
            yes : BOOLEAN, confirm : BOOLEAN] :
        ~a.yes => a.given \ DOMAIN CliValues # {}}

\* get_interactive_options: the GitHubInitOptions(...) it builds
InteractiveOptions(ans, c) ==
    LET asked(k) == k \in ans.given
        orNone(x) == IF Truthy(x) THEN x ELSE NoneStr
        text(k) == IF asked(k) THEN ans.val[k] ELSE orNone(ConfigGet(c, k, ""))
        yesno(k, default) == IF asked(k) THEN ans.yes ELSE ConfigGet(c, k, default)
        project == yesno("create_project", TRUE)
    IN  [repo_name |-> "repo",
         description |-> text("description"),
         private |-> IF asked("private") THEN ~ans.yes ELSE ConfigGet(c, "private", TRUE),
         license |-> text("license"),
         gitignore |-> text("gitignore"),
         readme |-> yesno("readme", TRUE),
         default_branch |-> IF asked("default_branch") THEN ans.val.default_branch
                            ELSE ConfigGet(c, "default_branch", "main"),
         topics |-> IF asked("topics") THEN ans.val.topics
                    ELSE IF ConfigGet(c, "topics", <<>>) # <<>>
                         THEN ConfigGet(c, "topics", <<>>) ELSE NoneList,
         create_website |-> yesno("create_website", FALSE),
         enable_dependabot |-> yesno("enable_dependabot", TRUE),
         dry_run |-> FALSE,
         create_project |-> project,
         project_template |->
             IF ~project THEN "development"
             ELSE IF asked("project_template") THEN ans.val.project_template
             ELSE ConfigGet(c, "project_template", "development"),
         enable_auto_version |-> yesno("enable_auto_version", TRUE),
         enable_auto_merge |-> yesno("enable_auto_merge", TRUE),
         enable_claude_review |-> yesno("enable_claude_review", FALSE),
         enable_auto_release |-> yesno("enable_auto_release", TRUE)]

\* option flags given together with interactive mode
InteractiveFlagSample == {"dry_run", "public", "license"}

\* command lines of CLI mode, and of interactive mode
CliArgs ==
    {a \in ArgSpace : "repo_name" \in a.given /\ "interactive" \notin a.given}

InteractiveArgs ==
    {a \in ArgSpace : /\ "repo_name" \notin a.given \/ "interactive" \in a.given
                      /\ a.given \cap OptionDests \subseteq InteractiveFlagSample}

----------------------------------------------------------------------------
(* The learn command's files (src/claude_slash/commands/learn.py) *)

\* a text is the sequence of its characters; NL ends a line
NL == "\n"

\* the texts CLAUDE.md can hold: '#', an ordinary character and the line end
Texts == UNION {[1..n -> {"#", "x", NL}] : n \in 0..MaxChars}

\* the file does not exist
Missing == <<"<missing>">>

\* self.claude_md_path = Path.home() / ".claude" / "CLAUDE.md"
claude_md_path == "CLAUDE.md"

\* datetime.now().strftime("%Y%m%d-%H%M%S"): the second the backup is taken in
Timestamps == {"t1", "t2"}

\* self.claude_md_path.parent / f"CLAUDE.md.backup-{timestamp_str}"
BackupName(ts) == IF ts = "t1" THEN "CLAUDE.md.backup-t1" ELSE "CLAUDE.md.backup-t2"

ClaudeFiles == {claude_md_path} \cup {BackupName(ts) : ts \in Timestamps}

\* no section selected: _interactive_section_selection returned None, or was not called
NoSection == [type |-> "none", line_num |-> 0, name |-> <<>>, header |-> <<>>]

\* the learn command is not running: ~/.claude is not looked at
LearnIdle ==
    /\ claude_dir = [f \in ClaudeFiles |-> Missing]
    /\ sections = <<>>
    /\ selected_section = NoSection
    /\ backup_path = NoneStr

\* f.readlines(): the text cut after every NL, each line keeping its NL
RECURSIVE ReadLines(_)
ReadLines(text) ==
    IF text = <<>> THEN <<>>
    ELSE LET ends == {i \in 1..Len(text) : text[i] = NL}
             n == IF ends = {} THEN Len(text)
                  ELSE CHOOSE i \in ends : \A j \in ends : i <= j
         IN <<SubSeq(text, 1, n)>> \o ReadLines(SubSeq(text, n + 1, Len(text)))

\* f.writelines(lines): the lines one after another, nothing added between them
RECURSIVE WriteLines(_)
WriteLines(lines) ==
    IF lines = <<>> THEN <<>> ELSE Head(lines) \o WriteLines(Tail(lines))

\* line.startswith('#')
StartsWithHash(line) == Len(line) > 0 /\ line[1] = "#"

\* line.strip(): the line without its line end
Strip(line) ==
    IF Len(line) > 0 /\ line[Len(line)] = NL THEN SubSeq(line, 1, Len(line) - 1) ELSE line

\* Limit to first 20 sections for display
SectionLimit == 20

\* _parse_claude_md_structure: one entry per line that starts with '#', in file
\* order, the first SectionLimit of them
ParseClaudeMdStructure(text) ==
    LET lines == ReadLines(text)
        nums == SelectSeq([i \in 1..Len(lines) |-> i], LAMBDA i : StartsWithHash(lines[i]))
        kept == SubSeq(nums, 1, IF Len(nums) < SectionLimit THEN Len(nums) ELSE SectionLimit)
    IN [k \in 1..Len(kept) |->
           [line_num |-> kept[k], header |-> Strip(lines[kept[k]]), type |-> "existing"]]

\* _interactive_section_selection: the number typed picks an existing section,
\* or (one past the last) a new section with the name typed; anything else is None
InteractiveSectionSelection(secs, selection, name) ==
    LET max_selection == Len(secs) + 1
        \* new_section_name.strip()
        stripped == SelectSeq(name, LAMBDA c : c # " ")
    IN
    IF selection < 1 \/ selection > max_selection THEN NoSection
    ELSE IF selection = max_selection
    THEN IF stripped = <<>> THEN NoSection
         ELSE [type |-> "new_section", line_num |-> 0, name |-> stripped,
               header |-> <<"#", "#", " ">> \o stripped]
    ELSE [type |-> "existing", line_num |-> secs[selection].line_num,
          name |-> secs[selection].header, header |-> secs[selection].header]

\* mode_map = {1: "append", 2: "insert", 3: "manual"}
ModeMap(n) == CASE n = 1 -> "append" [] n = 2 -> "insert" [] n = 3 -> "manual"

\* _format_learning_content: a "## Session Learning" header line and the body,
\* ending with a line end
FormattedLearning == <<"#", "L", NL, "L", NL>>

\* f"\n{formatted_learning}\n"
LearningBlock == <<NL>> \o FormattedLearning \o <<NL>>

\* lines.insert(i, x), i counted from 0
ListInsert(lines, i, x) ==
    SubSeq(lines, 1, i) \o <<x>> \o SubSeq(lines, i + 1, Len(lines))

\* Find end of section: the index (from 0) of the first line after start_line
\* that starts with '#', or len(lines)
EndOfSection_EndOfFile(lines, start_line) == Len(lines)

EndOfSection(lines, start_line) ==
    LET next == {i \in (start_line + 1)..(Len(lines) - 1) : StartsWithHash(lines[i + 1])}
    IN IF next = {} THEN Len(lines) ELSE CHOOSE i \in next : \A j \in next : i <= j

\* _integrate_existing_section: the text written back to CLAUDE.md
IntegrateExistingSection(text, section, mode) ==
    LET lines == ReadLines(text)
        start_line == section.line_num - 1
    IN IF mode = "append"
       THEN WriteLines(ListInsert(lines, EndOfSection(lines, start_line), LearningBlock))
       ELSE IF mode = "insert"
       THEN WriteLines(ListInsert(lines, start_line + 1, LearningBlock))
       ELSE WriteLines(lines)

\* _integrate_new_section: f"{content}\n\n## {section_name}\n\n{formatted_learning}"
IntegrateNewSection(text, section_name) ==
    text \o <<NL, NL, "#", "#", " ">> \o section_name \o <<NL, NL>> \o FormattedLearning

----------------------------------------------------------------------------
(* Requests *)

DefaultOptions ==
    [repo_name |-> RepoName,
     license |-> "",
     gitignore |-> "",
     readme |-> TRUE,
     topics |-> <<>>,
     create_website |-> FALSE,
     enable_dependabot |-> TRUE,
     dry_run |-> FALSE,
     create_project |-> TRUE,
     project_template |-> "development",
     enable_auto_version |-> TRUE,
     enable_auto_merge |-> TRUE,
     enable_claude_review |-> FALSE,
     enable_auto_release |-> TRUE,
     enable_branch_protection |-> TRUE]

TopicLists == {SubSeq(TopicPool, 1, n) : n \in {0, MaxTopics}}

\* choices of --license
LicenseChoices == {"MIT", "Apache-2.0", "GPL-3.0"}

\* requests that change what is generated: a license, an ignore template, no README,
\* no dependabot, no automation workflows, the review workflows
ArtifactVariants ==
    {[DefaultOptions EXCEPT !.license = l] : l \in LicenseChoices}
    \cup {[DefaultOptions EXCEPT !.gitignore = "python", !.readme = FALSE],
          [DefaultOptions EXCEPT !.enable_dependabot = FALSE,
                                 !.enable_claude_review = TRUE],
          [DefaultOptions EXCEPT !.enable_auto_version = FALSE,
                                 !.enable_auto_merge = FALSE,
                                 !.enable_auto_release = FALSE]}

OptionSpace ==
    {[DefaultOptions EXCEPT !.dry_run = d, !.create_website = w,
                            !.create_project = p, !.topics = t] :
        d \in BOOLEAN, w \in BOOLEAN, p \in BOOLEAN, t \in TopicLists}
    \cup {[o EXCEPT !.dry_run = d] : o \in ArtifactVariants, d \in BOOLEAN}

\* what is on disk under the start directory before the run
PreExisting ==
    { [dirs |-> {StartDir}, files |-> {}],
      [dirs |-> {StartDir, StartDir \o <<RepoName>>},
       files |-> {StartDir \o <<RepoName, "notes.txt">>}],
      [dirs |-> {StartDir, StartDir \o <<RepoName>>, StartDir \o <<RepoName, RepoName>>},
       files |-> {StartDir \o <<RepoName, RepoName, "data.txt">>}] }

WorldInit ==
    /\ cwd = StartDir
    /\ \E w \in PreExisting : dirs = w.dirs /\ files = w.files
    /\ remote \in {"none", "preexisting"}
    /\ events = <<>>

\* GitHubInitCommand.__init__ / GitHubInitialization.__init__
Init ==
    /\ WorldInit
    /\ options \in OptionSpace
    /\ original_dir = cwd
    /\ before = [dirs |-> dirs, files |-> files]
    /\ github_repo_created = FALSE
    /\ pc = "start"
    /\ exc = "none"
    /\ args = [given |-> {"repo_name"}, val |-> CliValues]
    /\ config_file = NoConfigFile
    /\ answers = NoAnswers
    /\ config = NoConfig
    /\ result = [status |-> "options"]
    /\ LearnIdle

Log(evs) == events' = events \o evs

Goto(step) == pc' = step /\ exc' = exc

\* variant: no except clause, an exception goes straight to the finally clause
Raise_SkipRollback(step) == pc' = "finally" /\ exc' = step

\* an exception leaves the try block of execute()
Raise(step) == pc' = "except" /\ exc' = step

----------------------------------------------------------------------------
(* GitHubInitCommand (github_init_command.py): files each step generates *)

IsMIT(l) == l \in {"MIT", "mit", "Mit"}

\* _create_initial_files: README.md, .gitignore, LICENSE (written for MIT only)
InitialFileOps(o) ==
    Opt(o.readme, <<W("README.md", <<"README.md">>)>>)
    \o Opt(o.gitignore # "", <<W(".gitignore", <<".gitignore">>)>>)
    \o Opt(o.license # "" /\ IsMIT(o.license), <<W("LICENSE", <<"LICENSE">>)>>)

WF(name) == W(name, <<".github", "workflows", name>>)

\* _create_github_workflows
WorkflowOps(o) ==
    <<D(".github/workflows", <<".github", "workflows">>, TRUE), WF("ci.yml")>>
    \o Opt(o.create_website, <<WF("deploy-docusaurus.yml"), WF("pr-preview.yml")>>)
    \o Opt(o.enable_auto_version, <<WF("auto-version.yml")>>)
    \o Opt(o.enable_auto_merge, <<WF("automerge.yml")>>)
    \o Opt(o.enable_auto_release, <<WF("release.yml")>>)
    \o Opt(o.enable_claude_review, <<WF("claude-code-review.yml"), WF("claude.yml")>>)
    \o Opt(o.enable_dependabot,
           <<D(".github", <<".github">>, FALSE),
             W(".github/dependabot.yml", <<".github", "dependabot.yml">>)>>)

\* _initialize_docusaurus, run with working directory `at`
DocusaurusOps(o, at) ==
    Opt(Resolve(at, <<"package.json">>) \notin files,
        <<W("package.json", <<"package.json">>)>>)
    \o <<W("docusaurus.config.js", <<"docusaurus.config.js">>),
         W("sidebars.js", <<"sidebars.js">>),
         D("docs", <<"docs">>, FALSE),
         W("docs/intro.md", <<"docs", "intro.md">>),
         D("src", <<"src">>, FALSE),
         D("src/css", <<"src", "css">>, FALSE),
         W("src/css/custom.css", <<"src", "css", "custom.css">>),
         D("src/pages", <<"src", "pages">>, FALSE),
         W("src/pages/index.js", <<"src", "pages", "index.js">>),
         W("src/pages/index.module.css", <<"src", "pages", "index.module.css">>),
         D("src/components", <<"src", "components">>, FALSE),
         D("src/components/HomepageFeatures", <<"src", "components", "HomepageFeatures">>, FALSE),
         W("src/components/HomepageFeatures/index.js",
           <<"src", "components", "HomepageFeatures", "index.js">>),
         W("src/components/HomepageFeatures/styles.module.css",
           <<"src", "components", "HomepageFeatures", "styles.module.css">>),
         D("static", <<"static">>, FALSE),
         D("static/img", <<"static", "img">>, FALSE)>>
    \o Opt(o.gitignore # "node", <<W(".gitignore", <<".gitignore">>)>>)

\* fields _configure_project_template adds for each template
TemplateFields(t) ==
    IF t = "basic" THEN <<"Status">>
    ELSE IF t = "development" THEN <<"Status", "Priority", "Sprint">>
    ELSE IF t = "release" THEN <<"Status", "Priority", "Target Date", "Milestone">>
    ELSE <<>>

\* _execute_dry_run: the entries of "Files that would be created", in order
DryRunFileList(o) ==
    <<D(".git", <<".git">>, FALSE)>>
    \o Opt(o.readme, <<W("README.md", <<"README.md">>)>>)
    \o Opt(o.license # "", <<W("LICENSE", <<"LICENSE">>)>>)
    \o Opt(o.gitignore # "", <<W(".gitignore", <<".gitignore">>)>>)
    \o <<WF("ci.yml")>>
    \o Opt(o.create_website,
           <<W("package.json", <<"package.json">>),
             W("docusaurus.config.js", <<"docusaurus.config.js">>),
             W("sidebars.js", <<"sidebars.js">>),
             D("docs", <<"docs">>, FALSE),
             W("docs/intro.md", <<"docs", "intro.md">>),
             WF("deploy-docusaurus.yml"),
             WF("pr-preview.yml")>>)
    \o Opt(o.enable_dependabot,
           <<W(".github/dependabot.yml", <<".github", "dependabot.yml">>)>>)

\* _execute_dry_run: the numbers in front of "Actions that would be performed"
DryRunActionNumbers(o) ==
    <<1, 2, 3, 4>> \o Opt(o.topics # <<>>, <<5>>) \o <<6, 7, 8>>

\* what _execute_dry_run prints: the heading, one line per file entry, one line
\* per action
DryRunEvents(o, at) ==
    <<PrintEv("dry_run_preview", at)>>
    \o [i \in 1..Len(DryRunFileList(o)) |->
           [op |-> "print", arg |-> "would_create", detail |-> DryRunFileList(o)[i].kind,
            ok |-> TRUE, cwd |-> at, path |-> <<o.repo_name>> \o DryRunFileList(o)[i].rel]]
    \o [i \in 1..Len(DryRunActionNumbers(o)) |->
           [op |-> "print", arg |-> "would_perform", detail |-> "", ok |-> TRUE,
            cwd |-> at, path |-> <<DryRunActionNumbers(o)[i]>>]]

----------------------------------------------------------------------------
(* GitHubInitCommand._validate_prerequisites *)

\* what the environment answers to each prerequisite probe
Environments ==
    [git : BOOLEAN, gh : BOOLEAN, auth : BOOLEAN, api : BOOLEAN,
     proj : {"ok", "scope", "other"},
     node : {"ok", "old", "unparsable", "missing"}]

\* variant: the project-permission probe and an unparseable Node.js version are fatal too
ValidationFails_Strict(o, env) ==
    \/ ~env.git
    \/ ~env.gh
    \/ ~env.auth
    \/ ~env.api
    \/ o.create_project /\ env.proj # "ok"
    \/ o.create_website /\ env.node \in {"old", "missing", "unparsable"}

\* validation raises RuntimeError (or lets the probe's own error through)
ValidationFails(o, env) ==
    \/ ~env.git
    \/ ~env.gh
    \/ ~env.auth
    \/ ~env.api
    \/ o.create_website /\ env.node \in {"old", "missing"}

\* variant: every probe is run whatever the earlier ones answered
ValidationEvents_RunsAll(o, env, at) ==
    <<RunEv("git --version", "", env.git, at),
      RunEv("gh --version", "", env.gh, at),
      RunEv("gh auth status", "", env.auth, at),
      RunEv("gh api user", "", env.api, at)>>
    \o Opt(o.create_project, <<RunEv("gh project list", "", env.proj = "ok", at)>>)
    \o Opt(o.create_website, <<RunEv("node --version", "", env.node # "missing", at)>>)

\* the probes validation runs, in order, up to and including the first fatal one
ValidationEvents(o, env, at) ==
    LET c1 == <<RunEv("git --version", "", env.git, at)>>
        c2 == <<RunEv("gh --version", "", env.gh, at)>>
        c3 == <<RunEv("gh auth status", "", env.auth, at)>>
        c4 == <<RunEv("gh api user", "", env.api, at)>>
        c5 == Opt(o.create_project,
                  <<RunEv("gh project list", "", env.proj = "ok", at),
                    PrintEv(IF env.proj = "ok" THEN "projects_access_confirmed"
                            ELSE IF env.proj = "scope" THEN "project_creation_will_be_skipped"
                            ELSE "project_access_check_failed", at)>>)
        c6 == Opt(o.create_website,
                  <<RunEv("node --version", "", env.node # "missing", at)>>
                  \o Opt(env.node = "unparsable", <<PrintEv("node_version_unparsed", at)>>))
    IN  IF ~env.git THEN c1
        ELSE IF ~env.gh THEN c1 \o c2
        ELSE IF ~env.auth THEN c1 \o c2 \o c3
        ELSE IF ~env.api THEN c1 \o c2 \o c3 \o c4
        ELSE c1 \o c2 \o c3 \o c4 \o c5 \o c6

----------------------------------------------------------------------------
(* GitHubInitCommand.execute, one action per step *)

\* variant: the preview does not return, so validation runs after it
ExecuteDryRun_NoReturn ==
    /\ pc = "start"
    /\ options.dry_run
    /\ \E env \in Environments :
          /\ Log(DryRunEvents(options, cwd) \o ValidationEvents(options, env, cwd))
          /\ IF ValidationFails(options, env)
             THEN pc' = "raised" /\ exc' = "validate_prerequisites"
             ELSE Goto("init_git_repo")
    /\ UNCHANGED <<fixed, github_repo_created, cwd, dirs, files, remote>>

\* execute(): dry_run short-circuits everything
ExecuteDryRun ==
    /\ pc = "start"
    /\ options.dry_run
    /\ Log(DryRunEvents(options, cwd))
    /\ Goto("done")
    /\ UNCHANGED <<fixed, github_repo_created, cwd, dirs, files, remote>>

\* variant: validation inside the try block, so its failure reaches rollback
ValidationFailure_InsideTry == Raise("validate_prerequisites")

\* a validation error leaves execute() before the try block is entered
ValidationFailure == pc' = "raised" /\ exc' = "validate_prerequisites"

ValidatePrerequisites ==
    /\ pc = "start"
    /\ ~options.dry_run
    /\ \E env \in Environments :
          /\ Log(ValidationEvents(options, env, cwd))
          /\ IF ValidationFails(options, env)
             THEN ValidationFailure
             ELSE Goto("init_git_repo")
    /\ UNCHANGED <<fixed, github_repo_created, cwd, dirs, files, remote>>

\* Path(repo_name).mkdir(parents=True, exist_ok=True): an existing directory is accepted
MkdirAccepts(target) == TRUE

InitGitRepo ==
    /\ pc = "init_git_repo"
    /\ LET target == Resolve(cwd, <<options.repo_name>>) IN
       \E outcome \in {"ok", "mkdir_fail", "git_fail"} :
          IF outcome = "mkdir_fail" \/ ~MkdirAccepts(target)
          THEN /\ Log(<<FsEv("mkdir", options.repo_name, target, FALSE, cwd)>>)
               /\ Raise("init_git_repo")
               /\ UNCHANGED <<cwd, dirs>>
          ELSE /\ cwd' = target
               /\ Log(<<FsEv("mkdir", options.repo_name, target, TRUE, cwd),
                        FsEv("chdir", options.repo_name, target, TRUE, cwd),
                        RunEv("git init", "", outcome = "ok", target)>>)
               /\ IF outcome = "ok"
                  THEN /\ dirs' = dirs \cup {target, target \o <<".git">>}
                       /\ Goto("create_initial_files")
                  ELSE /\ dirs' = dirs \cup {target}
                       /\ Raise("init_git_repo")
    /\ UNCHANGED <<fixed, github_repo_created, files, remote>>

\* a step that only creates directories and files: a prefix of its operations
\* succeeds and the next one, if any, raises
FileStep(step, ops, next) ==
    /\ pc = step
    /\ \E k \in 0..Len(ops) :
          /\ dirs' = DirsAfter(ops, k, cwd)
          /\ files' = FilesAfter(ops, k, cwd)
          /\ Log(OpEvents(ops, k, cwd))
          /\ IF k < Len(ops) THEN Raise(step) ELSE Goto(next)
    /\ UNCHANGED <<fixed, github_repo_created, cwd, remote>>

\* variant: the remote repository is created right after the initial files
CreateInitialFiles_ThenRemote ==
    FileStep("create_initial_files", InitialFileOps(options), "create_github_repo")

CreateInitialFiles ==
    FileStep("create_initial_files", InitialFileOps(options), "create_github_workflows")

CreateGithubWorkflows ==
    FileStep("create_github_workflows", WorkflowOps(options),
             IF options.create_website THEN "initialize_docusaurus" ELSE "create_github_repo")

InitializeDocusaurus ==
    FileStep("initialize_docusaurus", DocusaurusOps(options, cwd), "create_github_repo")

\* variant: the CalledProcessError of `gh repo create` is not caught
CreateFailure_Propagates(next) == Raise("create_github_repo")

\* what follows a `gh repo create` that exits non-zero: CalledProcessError is caught
\* inside _create_github_repo, which returns normally
CreateFailureHandled(next) == Goto(next)

CreateGithubRepo ==
    /\ pc = "create_github_repo"
    /\ LET next == IF options.create_project THEN "create_github_project" ELSE "configure_repo" IN
       \E outcome \in {"ok", "create_fail", "user_fail", "remote_fail"} :
          /\ outcome # "create_fail" => remote = "none"
          /\ IF outcome = "create_fail"
             THEN /\ Log(<<RunEv("gh repo create", "", FALSE, cwd),
                           PrintEv("could_not_create_remote", cwd)>>)
                  /\ CreateFailureHandled(next)
                  /\ UNCHANGED <<github_repo_created, remote>>
             ELSE /\ github_repo_created' = TRUE
                  /\ remote' = "created"
                  /\ Goto(next)
                  /\ Log(<<RunEv("gh repo create", "", TRUE, cwd),
                           RunEv("gh api user --jq .login", "", outcome # "user_fail", cwd)>>
                         \o Opt(outcome # "user_fail",
                                <<RunEv("git remote add origin", "", outcome = "ok", cwd)>>)
                         \o <<PrintEv(IF outcome = "ok" THEN "remote_configured"
                                      ELSE "could_not_create_remote", cwd)>>)
    /\ UNCHANGED <<fixed, cwd, dirs, files>>

CreateGithubProject ==
    /\ pc = "create_github_project"
    /\ LET fields == TemplateFields(options.project_template) IN
       \E created \in BOOLEAN, r \in [1..Len(fields) -> BOOLEAN] :
          /\ ~created => \A i \in 1..Len(fields) : r[i]
          /\ Log(<<RunEv("gh project create", "", created, cwd)>>
                 \o (IF created
                     THEN [i \in 1..Len(fields) |->
                              RunEv("gh project field-create", fields[i], r[i], cwd)]
                          \o <<PrintEv("project_configured", cwd)>>
                     ELSE <<PrintEv("project_creation_skipped", cwd)>>))
    /\ Goto("configure_repo")
    /\ UNCHANGED <<fixed, github_repo_created, cwd, dirs, files, remote>>

\* variant: the CalledProcessError of `gh repo edit --add-topic` is not caught
TopicFailure_Propagates == Raise("configure_repo")

\* what follows a topic call that exits non-zero: CalledProcessError is caught inside
\* _configure_repo, the remaining topics are skipped and the step returns
TopicFailureHandled == Goto("commit_and_push")

ConfigureRepo ==
    /\ pc = "configure_repo"
    /\ LET ts == options.topics IN
       \E k \in 0..Len(ts) :
          /\ Log([i \in 1..(IF k < Len(ts) THEN k + 1 ELSE k) |->
                  RunEv("gh repo edit --add-topic", ts[i], i <= k, cwd)]
              \o Opt(Len(ts) > 0,
                     <<PrintEv(IF k < Len(ts) THEN "could_not_add_topics" ELSE "added_topics", cwd)>>))
          /\ IF k < Len(ts) THEN TopicFailureHandled ELSE Goto("commit_and_push")
    /\ UNCHANGED <<fixed, github_repo_created, cwd, dirs, files, remote>>

\* variant: the CalledProcessError of `git push` is not caught
PushFailure_Propagates == Raise("commit_and_push")

\* what follows a `git push` that exits non-zero: CalledProcessError is caught
\* inside _commit_and_push, a warning is printed and the step returns
PushFailureHandled == Goto("finally")

CommitAndPush ==
    /\ pc = "commit_and_push"
    /\ \E outcome \in {"ok", "add_fail", "commit_fail", "push_fail"} :
          IF outcome = "add_fail"
          THEN /\ Log(<<RunEv("git add", "", FALSE, cwd)>>)
               /\ Raise("commit_and_push")
          ELSE IF outcome = "commit_fail"
          THEN /\ Log(<<RunEv("git add", "", TRUE, cwd), RunEv("git commit", "", FALSE, cwd)>>)
               /\ Raise("commit_and_push")
          ELSE /\ Log(<<RunEv("git add", "", TRUE, cwd), RunEv("git commit", "", TRUE, cwd),
                        RunEv("git push", "", outcome = "ok", cwd)>>
                      \o Opt(outcome = "push_fail", <<PrintEv("could_not_push", cwd)>>)
                      \o <<PrintEv("successfully_initialized", cwd)>>)
               /\ IF outcome = "push_fail" THEN PushFailureHandled ELSE Goto("finally")
    /\ UNCHANGED <<fixed, github_repo_created, cwd, dirs, files, remote>>

\* variant: rollback deletes the remote repository unconditionally
RemoteDeletionGate_Always == TRUE

\* _rollback_changes: the condition under which the remote repository is deleted
RemoteDeletionGate == github_repo_created

\* _rollback_changes: the directory the relative Path(repo_name) names
RollbackRepoPath == Resolve(cwd, <<options.repo_name>>)

\* variant: an error inside rollback replaces the exception being handled
ExceptionAfterRollback_Replaced(delFailed, rmFailed) ==
    IF delFailed \/ rmFailed THEN "rollback_changes" ELSE exc

\* the exception execute() re-raises after _rollback_changes: both deletions catch
\* their own errors and print a warning, so it is the one that entered the handler
ExceptionAfterRollback(delFailed, rmFailed) == exc

\* except Exception: ... self._rollback_changes(); raise
RollbackChanges ==
    /\ pc = "except"
    /\ \E delOk \in BOOLEAN, rmOk \in BOOLEAN :
          LET repo_path == RollbackRepoPath
              found == PathExists(repo_path)
          IN  /\ pc' = "finally"
              /\ exc' = ExceptionAfterRollback(RemoteDeletionGate /\ ~delOk, found /\ ~rmOk)
              /\ Log(<<PrintEv("error_initializing", cwd), PrintEv("rolling_back", cwd)>>
                     \o Opt(RemoteDeletionGate, <<RunEv("gh repo delete", "", delOk, cwd)>>)
                     \o <<FsEv("exists", options.repo_name, repo_path, found, cwd)>>
                     \o Opt(found, <<FsEv("rmtree", options.repo_name, repo_path, rmOk, cwd)>>))
              /\ remote' = IF RemoteDeletionGate /\ delOk THEN "none" ELSE remote
              /\ dirs' = IF found /\ rmOk THEN RmTree(dirs, repo_path) ELSE dirs
              /\ files' = IF found /\ rmOk THEN RmTree(files, repo_path) ELSE files
    /\ UNCHANGED <<fixed, github_repo_created, cwd>>

\* variant: no finally clause restores the working directory
ExecuteFinally_NoRestore ==
    /\ pc = "finally"
    /\ pc' = (IF exc = "none" THEN "done" ELSE "raised")
    /\ UNCHANGED <<fixed, github_repo_created, exc, cwd, dirs, files, remote, events>>

\* finally: os.chdir(self.original_dir); then return, or re-raise
ExecuteFinally ==
    /\ pc = "finally"
    /\ cwd' = original_dir
    /\ Log(<<FsEv("chdir", "original_dir", original_dir, TRUE, cwd)>>)
    /\ pc' = (IF exc = "none" THEN "done" ELSE "raised")
    /\ UNCHANGED <<fixed, github_repo_created, exc, dirs, files, remote>>

Next ==
    \/ ExecuteDryRun
    \/ ValidatePrerequisites
    \/ InitGitRepo
    \/ CreateInitialFiles
    \/ CreateGithubWorkflows
    \/ InitializeDocusaurus
    \/ CreateGithubRepo
    \/ CreateGithubProject
    \/ ConfigureRepo
    \/ CommitAndPush
    \/ RollbackChanges
    \/ ExecuteFinally

Spec == Init /\ [][Next]_vars

----------------------------------------------------------------------------
(* parse_arguments as a step: specification ParseSpec *)

ParseInit ==
    /\ \/ /\ args \in CliArgs
          /\ config_file \in ConfigFileSpace
          /\ answers = NoAnswers
       \/ /\ args \in InteractiveArgs
          /\ config_file \in {f \in ConfigFileSpace : f.unknown = {}}
          /\ answers \in AnswerSpace
    /\ config = NoConfig
    /\ result = [status |-> "pending"]
    /\ LearnIdle
    /\ options = DefaultOptions
    /\ cwd = StartDir /\ original_dir = StartDir
    /\ dirs = {StartDir} /\ files = {}
    /\ before = [dirs |-> {StartDir}, files |-> {}]
    /\ remote = "none"
    /\ events = <<>>
    /\ github_repo_created = FALSE
    /\ pc = "start"
    /\ exc = "none"

\* if not parsed.repo_name or parsed.interactive: return get_interactive_options()
UsesInteractiveMode(parsed) == ~Truthy(parsed.repo_name) \/ parsed.interactive

\* dry_run=False,  # Interactive mode doesn't use dry-run
InteractiveDryRun(parsed) == FALSE

\* get_interactive_options: the configuration is loaded, the prompts are answered,
\* and the user confirms (the options are returned) or declines (exit(0))
ParseArgumentsInteractive ==
    /\ result.status = "pending"
    /\ UsesInteractiveMode(Namespace(args))
    /\ config' = LoadConfigDefaults(config_file)
    /\ Log(LoadConfigWarnings(config_file, cwd))
    /\ result' = IF answers.confirm
                 THEN [status |-> "options",
                       value |-> [InteractiveOptions(answers, config') EXCEPT
                                     !.dry_run = InteractiveDryRun(Namespace(args))]]
                 ELSE [status |-> "exit"]
    /\ UNCHANGED <<options, original_dir, before, github_repo_created, pc, exc,
                   cwd, dirs, files, remote, args, config_file, answers, learn>>

\* config = load_config_defaults(); return GitHubInitOptions(...)
ParseArguments ==
    /\ result.status = "pending"
    /\ ~UsesInteractiveMode(Namespace(args))
    /\ config' = LoadConfigDefaults(config_file)
    /\ Log(LoadConfigWarnings(config_file, cwd))
    /\ result' = [status |-> "options", value |-> MergeOptions(Namespace(args), config')]
    /\ UNCHANGED <<options, original_dir, before, github_repo_created, pc, exc,
                   cwd, dirs, files, remote, args, config_file, answers, learn>>

ParseNext == ParseArguments \/ ParseArgumentsInteractive

ParseSpec == ParseInit /\ [][ParseNext]_vars

----------------------------------------------------------------------------
(* GitHubInitialization (src/claude_slash/commands/github_init.py)          *)

\* the possible results of a part of a step: the effects logged, the files
\* and directories added, and whether an exception leaves the part
Result(evs, newFiles, newDirs, raised) ==
    [evs |-> evs, files |-> newFiles, dirs |-> newDirs, raised |-> raised]

Nothing == Result(<<>>, {}, {}, FALSE)

\* part A, then (unless A raised) part B
Then(A, B) ==
    {a \in A : a.raised}
    \cup {Result(a.evs \o b.evs, a.files \cup b.files, a.dirs \cup b.dirs, b.raised) :
            a \in {x \in A : ~x.raised}, b \in B}

\* with open(rel, "w") as f: f.write(...)
WriteFile(name, rel, at) ==
    { Result(<<FsEv("write", name, Resolve(at, rel), TRUE, at)>>, {Resolve(at, rel)}, {}, FALSE),
      Result(<<FsEv("write", name, Resolve(at, rel), FALSE, at)>>, {}, {}, TRUE) }

\* Path(rel).mkdir(exist_ok=True)
MakeDir(name, rel, at) ==
    { Result(<<FsEv("mkdir", name, Resolve(at, rel), TRUE, at)>>, {},
             {Resolve(at, SubSeq(rel, 1, n)) : n \in 1..Len(rel)}, FALSE),
      Result(<<FsEv("mkdir", name, Resolve(at, rel), FALSE, at)>>, {}, {}, TRUE) }

\* subprocess.run(cmd, check=True)
RunChecked(cmd, at) ==
    { Result(<<RunEv(cmd, "", TRUE, at)>>, {}, {}, FALSE),
      Result(<<RunEv(cmd, "", FALSE, at)>>, {}, {}, TRUE) }

\* subprocess.run(cmd) whose return code is not checked
RunUnchecked(cmd, at) ==
    { Result(<<RunEv(cmd, "", TRUE, at)>>, {}, {}, FALSE),
      Result(<<RunEv(cmd, "", FALSE, at)>>, {}, {}, FALSE) }

\* _get_github_user: `gh api user`; a zero exit whose output is not JSON raises
GetGithubUser(at) ==
    RunUnchecked("gh api user", at)
    \cup {Result(<<RunEv("gh api user", "", TRUE, at)>>, {}, {}, TRUE)}

\* _create_gitignore: template from the API; any exception falls back to the
\* built-in template, whose own write may raise
CreateGitignoreT(at) ==
    LET api(ok) == <<RunEv("gh api /gitignore/templates", "", ok, at)>>
        wr(ok) == <<FsEv("write", ".gitignore", Resolve(at, <<".gitignore">>), ok, at)>>
        target == {Resolve(at, <<".gitignore">>)}
    IN  { Result(api(TRUE) \o wr(TRUE), target, {}, FALSE),
          Result(api(FALSE), {}, {}, FALSE),
          Result(api(TRUE) \o wr(FALSE) \o wr(TRUE), target, {}, FALSE),
          Result(api(TRUE) \o wr(FALSE) \o wr(FALSE), {}, {}, TRUE),
          Result(api(FALSE) \o wr(TRUE), target, {}, FALSE),
          Result(api(FALSE) \o wr(FALSE), {}, {}, TRUE) }

\* _create_initial_files
InitialFilesT(o, at) ==
    Then(IF o.readme THEN WriteFile("README.md", <<"README.md">>, at) ELSE {Nothing},
    Then(IF o.gitignore # "" THEN CreateGitignoreT(at) ELSE {Nothing},
         IF o.license # ""
         THEN Then(GetGithubUser(at), WriteFile("LICENSE", <<"LICENSE">>, at))
         ELSE {Nothing}))

\* a step of the try block: one of its possible results happens
TyperStep(step, results, next) ==
    /\ pc = step
    /\ \E r \in results :
          /\ Log(r.evs)
          /\ files' = files \cup r.files
          /\ dirs' = dirs \cup r.dirs
          /\ IF r.raised THEN Raise(step) ELSE Goto(next)
    /\ UNCHANGED <<fixed, github_repo_created, cwd, remote>>

Typer_ExecuteDryRun ==
    /\ pc = "start"
    /\ options.dry_run
    /\ Log(DryRunEvents(options, cwd))
    /\ Goto("done")
    /\ UNCHANGED <<fixed, github_repo_created, cwd, dirs, files, remote>>

\* _validate_prerequisites: gh authenticated, git present, directory not taken
Typer_ValidatePrerequisites ==
    /\ pc = "start"
    /\ ~options.dry_run
    /\ LET target == Resolve(cwd, <<options.repo_name>>)
           auth(ok) == <<RunEv("gh auth status", "", ok, cwd)>>
           git(ok) == <<RunEv("git --version", "", ok, cwd)>>
           probe == <<FsEv("exists", options.repo_name, target, PathExists(target), cwd)>>
       IN  \E outcome \in {"ok", "auth_fail", "git_fail"} :
              IF outcome = "auth_fail"
              THEN Log(auth(FALSE)) /\ pc' = "raised" /\ exc' = "validate_prerequisites"
              ELSE IF outcome = "git_fail"
              THEN /\ Log(auth(TRUE) \o git(FALSE))
                   /\ pc' = "raised" /\ exc' = "validate_prerequisites"
              ELSE /\ Log(auth(TRUE) \o git(TRUE) \o probe)
                   /\ IF PathExists(target)
                      THEN pc' = "raised" /\ exc' = "validate_prerequisites"
                      ELSE Goto("init_git_repo")
    /\ UNCHANGED <<fixed, github_repo_created, cwd, dirs, files, remote>>

\* _init_git_repo: os.makedirs, os.chdir, git init, git branch -M
Typer_InitGitRepo ==
    /\ pc = "init_git_repo"
    /\ LET target == Resolve(cwd, <<options.repo_name>>) IN
       \E outcome \in {"ok", "mkdir_fail", "init_fail", "branch_fail"} :
          IF outcome = "mkdir_fail" \/ PathExists(target)
          THEN /\ Log(<<FsEv("mkdir", options.repo_name, target, FALSE, cwd)>>)
               /\ Raise("init_git_repo")
               /\ UNCHANGED <<cwd, dirs>>
          ELSE /\ cwd' = target
               /\ Log(<<FsEv("mkdir", options.repo_name, target, TRUE, cwd),
                        FsEv("chdir", options.repo_name, target, TRUE, cwd),
                        RunEv("git init", "", outcome # "init_fail", target)>>
                      \o Opt(outcome # "init_fail",
                             <<RunEv("git branch -M", "", outcome = "ok", target)>>))
               /\ dirs' = dirs \cup (IF outcome = "init_fail" THEN {target}
                                     ELSE {target, target \o <<".git">>})
               /\ IF outcome = "ok" THEN Goto("create_initial_files")
                                    ELSE Raise("init_git_repo")
    /\ UNCHANGED <<fixed, github_repo_created, files, remote>>

Typer_CreateInitialFiles ==
    TyperStep("create_initial_files", InitialFilesT(options, cwd), "create_github_workflows")

Typer_CreateGithubWorkflows ==
    TyperStep("create_github_workflows",
              Then(MakeDir(".github/workflows", <<".github", "workflows">>, cwd),
                   WriteFile(".github/workflows/ci.yml", <<".github", "workflows", "ci.yml">>, cwd)),
              IF options.create_website THEN "initialize_docusaurus" ELSE "create_github_repo")

Typer_InitializeDocusaurus ==
    TyperStep("initialize_docusaurus",
              Then(MakeDir("docs", <<"docs">>, cwd),
                   WriteFile("docs/index.md", <<"docs", "index.md">>, cwd)),
              "create_github_repo")

\* the step after remote creation and after the project board
AfterProject(o) == IF o.enable_dependabot THEN "setup_dependabot" ELSE "configure_automation"

\* _create_github_repo: subprocess.run(cmd, check=True)
Typer_CreateGithubRepo ==
    /\ pc = "create_github_repo"
    /\ \E ok \in BOOLEAN :
          /\ ok => remote = "none"
          /\ Log(<<RunEv("gh repo create", "", ok, cwd)>>)
          /\ remote' = IF ok THEN "created" ELSE remote
          /\ IF ok
             THEN Goto(IF options.create_project THEN "create_github_project"
                       ELSE AfterProject(options))
             ELSE Raise("create_github_repo")
    /\ UNCHANGED <<fixed, github_repo_created, cwd, dirs, files>>

Typer_CreateGithubProject ==
    TyperStep("create_github_project", RunChecked("gh project create", cwd),
              AfterProject(options))

Typer_SetupDependabot ==
    TyperStep("setup_dependabot",
              Then(MakeDir(".github", <<".github">>, cwd),
                   WriteFile(".github/dependabot.yml", <<".github", "dependabot.yml">>, cwd)),
              "configure_automation")

\* _configure_automation only prints
Typer_ConfigureAutomation ==
    TyperStep("configure_automation",
              {Result(Opt(options.enable_auto_version, <<PrintEv("configuring_auto_version", cwd)>>)
                      \o Opt(options.enable_auto_merge, <<PrintEv("configuring_auto_merge", cwd)>>)
                      \o Opt(options.enable_auto_release, <<PrintEv("configuring_auto_release", cwd)>>),
                      {}, {}, FALSE)},
              IF options.enable_branch_protection THEN "setup_branch_protection"
              ELSE "initial_commit_and_push")

\* _setup_branch_protection: the user lookup is outside its try block
Typer_SetupBranchProtection ==
    TyperStep("setup_branch_protection",
              Then(GetGithubUser(cwd), RunUnchecked("gh api PUT branch protection", cwd)),
              "initial_commit_and_push")

Typer_InitialCommitAndPush ==
    TyperStep("initial_commit_and_push",
              Then(RunChecked("git add", cwd),
              Then(RunChecked("git commit", cwd),
              Then(GetGithubUser(cwd),
              Then(RunChecked("git remote add origin", cwd),
                   RunChecked("git push", cwd))))),
              "report_success")

\* the closing prints of the try block; the URL line looks the user up again
Typer_ReportSuccess ==
    TyperStep("report_success",
              Then({Result(<<PrintEv("initialized_successfully", cwd)>>, {}, {}, FALSE)},
                   GetGithubUser(cwd)),
              "done")

\* _rollback: the remote deletion is attempted whenever the user lookup returns
RollbackDeletesRemote(userRaised) == ~userRaised

\* except Exception: self._rollback(); raise
Typer_Rollback ==
    /\ pc = "except"
    /\ \E u \in GetGithubUser(original_dir), delOk \in BOOLEAN, rmOk \in BOOLEAN :
          LET repo_path == Resolve(original_dir, <<options.repo_name>>)
              found == PathExists(repo_path)
              del == RollbackDeletesRemote(u.raised)
          IN  /\ cwd' = original_dir
              /\ Log(<<PrintEv("error_during_initialization", cwd),
                       PrintEv("rolling_back", cwd),
                       FsEv("chdir", "original_dir", original_dir, TRUE, cwd)>>
                     \o u.evs
                     \o Opt(del, <<RunEv("gh repo delete", "", delOk, original_dir)>>)
                     \o <<FsEv("exists", options.repo_name, repo_path, found, original_dir)>>
                     \o Opt(found, <<FsEv("rmtree", options.repo_name, repo_path, rmOk, original_dir)>>))
              /\ remote' = IF del /\ delOk /\ remote # "none" THEN "none" ELSE remote
              /\ dirs' = IF found /\ rmOk THEN RmTree(dirs, repo_path) ELSE dirs
              /\ files' = IF found /\ rmOk THEN RmTree(files, repo_path) ELSE files
    /\ pc' = "raised"
    /\ UNCHANGED <<fixed, github_repo_created, exc>>

\* variant: BaseCommand.error only prints, so the command returns normally
CommandErrorExit_Returns == "exit_0"

\* BaseCommand.error prints and raises typer.Exit(1); the wrapper of the command
\* catches it, prints, and raises typer.Exit(1) itself
CommandErrorExit == "exit_1"

\* the command as Typer invokes it: kwargs with or without a repository name
TyperInit ==
    /\ WorldInit
    /\ options \in OptionSpace \cup {[DefaultOptions EXCEPT !.repo_name = ""]}
    /\ original_dir = cwd
    /\ before = [dirs |-> dirs, files |-> files]
    /\ github_repo_created = FALSE
    /\ pc = "command"
    /\ exc = "none"
    /\ args = [given |-> {"repo_name"}, val |-> CliValues]
    /\ config_file = NoConfigFile
    /\ answers = NoAnswers
    /\ config = NoConfig
    /\ result = [status |-> "options"]
    /\ LearnIdle

\* GitHubInitCommand.execute: a missing repository name is an error; otherwise the
\* options are built and GitHubInitialization(options).execute() is called
Typer_CommandExecute ==
    /\ pc = "command"
    /\ IF options.repo_name = ""
       THEN /\ Log(<<PrintEv("error_repository_name_required", cwd),
                     PrintEv("error_failed_to_initialize", cwd),
                     PrintEv("error_executing", cwd)>>)
            /\ pc' = CommandErrorExit
            /\ exc' = "command"
       ELSE /\ Goto("start")
            /\ UNCHANGED events
    /\ UNCHANGED <<fixed, github_repo_created, cwd, dirs, files, remote>>

\* initializer.execute() returned: self.success(...), exit code 0
Typer_CommandSuccess ==
    /\ pc = "done"
    /\ Log(<<PrintEv("command_success", cwd)>>)
    /\ Goto("exit_0")
    /\ UNCHANGED <<fixed, github_repo_created, cwd, dirs, files, remote>>

\* initializer.execute() raised: except Exception: self.error(...)
Typer_CommandFailure ==
    /\ pc = "raised"
    /\ Log(<<PrintEv("error_failed_to_initialize", cwd), PrintEv("error_executing", cwd)>>)
    /\ pc' = CommandErrorExit
    /\ exc' = exc
    /\ UNCHANGED <<fixed, github_repo_created, cwd, dirs, files, remote>>

TyperNext ==
    \/ Typer_CommandExecute
    \/ Typer_CommandSuccess
    \/ Typer_CommandFailure
    \/ Typer_ExecuteDryRun
    \/ Typer_ValidatePrerequisites
    \/ Typer_InitGitRepo
    \/ Typer_CreateInitialFiles
    \/ Typer_CreateGithubWorkflows
    \/ Typer_InitializeDocusaurus
    \/ Typer_CreateGithubRepo
    \/ Typer_CreateGithubProject
    \/ Typer_SetupDependabot
    \/ Typer_ConfigureAutomation
    \/ Typer_SetupBranchProtection
    \/ Typer_InitialCommitAndPush
    \/ Typer_ReportSuccess
    \/ Typer_Rollback

TyperSpec == TyperInit /\ [][TyperNext]_vars

----------------------------------------------------------------------------
(* LearnCommand.execute (src/claude_slash/commands/learn.py), one action per *)
(* step: specification LearnSpec                                            *)

\* ~/.claude when the command starts: CLAUDE.md missing or holding some text,
\* and possibly a backup an earlier run left
ClaudeDirSpace ==
    {[f \in ClaudeFiles |->
         IF f = claude_md_path THEN md ELSE IF f = BackupName("t1") THEN old ELSE Missing] :
       md \in Texts \cup {Missing}, old \in {Missing, <<"x", NL>>}}

LearnInit ==
    /\ claude_dir \in ClaudeDirSpace
    /\ sections = <<>>
    /\ selected_section = NoSection
    /\ backup_path = NoneStr
    /\ pc = "learn"
    /\ exc = "none"
    /\ cwd = StartDir /\ original_dir = StartDir
    /\ dirs = {StartDir} /\ files = {}
    /\ before = [dirs |-> dirs, files |-> files, claude_dir |-> claude_dir]
    /\ remote = "none"
    /\ events = <<>>
    /\ github_repo_created = FALSE
    /\ options = DefaultOptions
    /\ args = [given |-> {"repo_name"}, val |-> CliValues]
    /\ config_file = NoConfigFile
    /\ answers = NoAnswers
    /\ config = NoConfig
    /\ result = [status |-> "options"]

\* an answer typed at a prompt
AskEv(prompt, answer, yes, at) ==
    [op |-> "ask", arg |-> prompt, detail |-> answer, ok |-> yes, cwd |-> at, path |-> <<>>]

\* what a step of the learn command leaves alone
learn_fixed == <<options, original_dir, before, github_repo_created, cwd, dirs, files,
                 remote, args, config_file, answers, config, result>>

\* if not self.claude_md_path.exists(): self.error(...), which raises typer.Exit(1);
\* otherwise the learnings are extracted and displayed
Learn_CheckClaudeMd ==
    /\ pc = "learn"
    /\ IF claude_dir[claude_md_path] = Missing
       THEN /\ Log(<<PrintEv("error_claude_md_not_found", cwd)>>)
            /\ pc' = "exit_1"
            /\ exc' = "claude_md_not_found"
       ELSE /\ Log(<<PrintEv("learning_summary", cwd)>>)
            /\ Goto("confirm")
    /\ UNCHANGED <<learn_fixed, learn>>

\* the step of execute() that follows the confirmation: # Create backup
AfterConfirm_SkipsBackup == "select_section"

AfterConfirm == "create_backup"

\* Confirm.ask("Do you want to integrate these learnings into CLAUDE.md?")
Learn_Confirm ==
    /\ pc = "confirm"
    /\ \E yes \in BOOLEAN :
          /\ Log(<<AskEv("confirm_integration", "", yes, cwd)>>
                 \o Opt(~yes, <<PrintEv("cancelled_by_user", cwd)>>))
          /\ Goto(IF yes THEN AfterConfirm ELSE "returned")
    /\ UNCHANGED <<learn_fixed, learn>>

\* _create_backup: shutil.copy2(self.claude_md_path, backup_path), which can raise
Learn_CreateBackup ==
    /\ pc = "create_backup"
    /\ \E ts \in Timestamps, ok \in BOOLEAN :
          /\ Log(<<FsEv("copy2", BackupName(ts), <<BackupName(ts)>>, ok, cwd)>>
                 \o Opt(ok, <<PrintEv("backup_created", cwd)>>))
          /\ IF ok
             THEN /\ claude_dir' = [claude_dir EXCEPT ![BackupName(ts)] = claude_dir[claude_md_path]]
                  /\ backup_path' = BackupName(ts)
                  /\ Goto("select_section")
             ELSE /\ pc' = "raised"
                  /\ exc' = "create_backup"
                  /\ UNCHANGED <<claude_dir, backup_path>>
    /\ UNCHANGED <<learn_fixed, sections, selected_section>>

\* _parse_claude_md_structure, then _interactive_section_selection: None is an
\* error (typer.Exit(1)); a new section is integrated next; an existing one asks
\* for the integration mode
Learn_SelectSection ==
    /\ pc = "select_section"
    /\ sections' = ParseClaudeMdStructure(claude_dir[claude_md_path])
    /\ \E selection \in 0..(Len(sections') + 2), name \in {<<>>, <<" ">>, <<"n">>} :
          /\ selected_section' = InteractiveSectionSelection(sections', selection, name)
          /\ IF selected_section' = NoSection
             THEN /\ Log(<<AskEv("select_section", "", FALSE, cwd),
                           PrintEv("error_invalid_selection", cwd)>>)
                  /\ pc' = "exit_1"
                  /\ exc' = "invalid_selection"
             ELSE /\ Log(<<AskEv("select_section", selected_section'.type, TRUE, cwd)>>)
                  /\ Goto(IF selected_section'.type = "new_section"
                          THEN "integrate_new_section" ELSE "choose_integration_mode")
    /\ UNCHANGED <<learn_fixed, claude_dir, backup_path>>

\* _integrate_new_section
Learn_IntegrateNewSection ==
    /\ pc = "integrate_new_section"
    /\ claude_dir' = [claude_dir EXCEPT ![claude_md_path] =
                         IntegrateNewSection(claude_dir[claude_md_path], selected_section.name)]
    /\ Log(<<FsEv("write", claude_md_path, <<claude_md_path>>, TRUE, cwd),
             PrintEv("learning_integrated", cwd)>>)
    /\ Goto("integration_summary")
    /\ UNCHANGED <<learn_fixed, sections, selected_section, backup_path>>

\* _choose_integration_mode, then _show_manual_integration (and return) or
\* _integrate_existing_section
Learn_IntegrateExistingSection ==
    /\ pc = "choose_integration_mode"
    /\ \E mode_selection \in 1..3 :
          LET integration_mode == ModeMap(mode_selection)
              text == claude_dir[claude_md_path]
          IN IF integration_mode = "manual"
             THEN /\ Log(<<AskEv("integration_mode", integration_mode, TRUE, cwd),
                           PrintEv("manual_integration", cwd)>>)
                  /\ UNCHANGED claude_dir
                  /\ Goto("returned")
             ELSE /\ Log(<<AskEv("integration_mode", integration_mode, TRUE, cwd),
                           FsEv("write", claude_md_path, <<claude_md_path>>, TRUE, cwd),
                           PrintEv("learning_integrated", cwd)>>)
                  /\ claude_dir' = [claude_dir EXCEPT ![claude_md_path] =
                        IntegrateExistingSection(text, selected_section, integration_mode)]
                  /\ Goto("integration_summary")
    /\ UNCHANGED <<learn_fixed, sections, selected_section, backup_path>>

\* _show_integration_summary
Learn_ShowIntegrationSummary ==
    /\ pc = "integration_summary"
    /\ Log(<<PrintEv("integration_summary", cwd)>>)
    /\ Goto("returned")
    /\ UNCHANGED <<learn_fixed, learn>>

LearnNext ==
    \/ Learn_CheckClaudeMd
    \/ Learn_Confirm
    \/ Learn_CreateBackup
    \/ Learn_SelectSection
    \/ Learn_IntegrateNewSection
    \/ Learn_IntegrateExistingSection
    \/ Learn_ShowIntegrationSummary

LearnSpec == LearnInit /\ [][LearnNext]_vars

----------------------------------------------------------------------------
(* What the log shows *)

Ran(cmd) == \E i \in DOMAIN events : events[i].op = "run" /\ events[i].arg = cmd

RanOk(cmd) ==
    \E i \in DOMAIN events : events[i].op = "run" /\ events[i].arg = cmd /\ events[i].ok

RanFailed(cmd) ==
    \E i \in DOMAIN events : events[i].op = "run" /\ events[i].arg = cmd /\ ~events[i].ok

Printed(tag) == \E i \in DOMAIN events : events[i].op = "print" /\ events[i].arg = tag

RollbackRan == Printed("rolling_back")

\* the run changed into the repository directory
EnteredRepo ==
    \E i \in DOMAIN events :
        events[i].op = "chdir" /\ events[i].arg = options.repo_name /\ events[i].ok

\* <original working directory>/<repo_name>
LocalRepoDir == Resolve(original_dir, <<options.repo_name>>)

\* the read-only probes of prerequisite validation
ProbeCommands ==
    {"git --version", "gh --version", "gh auth status", "gh api user",
     "gh project list", "node --version"}

----------------------------------------------------------------------------
(* Claims about GitHubInitCommand, checked under Spec *)

\* C1: with dry_run set, execute() returns normally and its only effects are
\* printed lines: no subprocess call (so no prerequisite validation either), no
\* directory creation, no file write, no change of working directory.
C1_DryRunHasNoEffects ==
    options.dry_run =>
        /\ pc \in {"start", "done"}
        /\ exc = "none"
        /\ \A i \in DOMAIN events : events[i].op = "print"
        /\ cwd = original_dir
        /\ dirs = before.dirs
        /\ files = before.files
        /\ ~github_repo_created

C1_Witness == options.dry_run /\ pc = "done" /\ Printed("dry_run_preview")

\* C3: github_repo_created is true exactly when `gh repo create` has returned
\* successfully in this run, and a rollback issues `gh repo delete` exactly when
\* the flag is set; no deletion is issued outside rollback or before a
\* successful creation.
C3_RemoteDeletionGatedByFlag ==
    /\ github_repo_created <=> RanOk("gh repo create")
    /\ RollbackRan => (Ran("gh repo delete") <=> github_repo_created)
    /\ ~RollbackRan => ~Ran("gh repo delete")
    /\ \A i \in DOMAIN events :
          (events[i].op = "run" /\ events[i].arg = "gh repo delete") =>
              \E j \in 1..(i - 1) :
                  events[j].op = "run" /\ events[j].arg = "gh repo create" /\ events[j].ok

C3_Witness == pc = "raised" /\ RollbackRan /\ Ran("gh repo delete") /\ github_repo_created

\* C4 (as claimed): when <repo_name> already exists as a directory and validation
\* has passed, the run never gets past _init_git_repo, never calls
\* `gh repo create`, and ends by raising with github_repo_created still False.
C4_ExistingDirectoryRejected ==
    (LocalRepoDir \in before.dirs /\ ~options.dry_run /\ pc # "start"
        /\ exc # "validate_prerequisites") =>
        /\ pc \in {"init_git_repo", "except", "finally", "raised"}
        /\ ~Ran("gh repo create")
        /\ ~github_repo_created

C6_RollbackRestoresCwdFirst ==
    \A i \in DOMAIN events :
        events[i].op \in {"exists", "rmtree"} => events[i].cwd = original_dir

\* C7 (as claimed): when a step fails after the local directory was created and
\* entered by this run, and no recursive deletion failed, the directory
\* <original_dir>/<repo_name> is gone when execute() raises.
C7_LocalDirectoryRemovedOnFailure ==
    (pc = "raised" /\ EnteredRepo /\ LocalRepoDir \notin before.dirs
        /\ ~(\E i \in DOMAIN events : events[i].op = "rmtree" /\ ~events[i].ok)) =>
        LocalRepoDir \notin dirs

\* C8: on every exit path of execute() (dry run, validation failure, success,
\* failure followed by rollback) the working directory equals the directory
\* recorded at construction.
C8_CwdRestoredOnExit == pc \in {"done", "raised"} => cwd = original_dir

C8_Witness == pc = "raised" /\ RollbackRan /\ EnteredRepo /\ cwd = original_dir

C11_OriginalExceptionPropagates ==
    [][ /\ pc' = "except" => exc' = pc
        /\ pc = "except" => pc' = "finally" /\ exc' = exc
        /\ pc = "finally" =>
              /\ exc' = exc
              /\ pc' = (IF exc = "none" THEN "done" ELSE "raised") ]_vars

C11_Witness ==
    /\ pc = "raised" /\ exc = "commit_and_push"
    /\ RanFailed("gh repo delete")
    /\ \E i \in DOMAIN events : events[i].op = "rmtree" /\ ~events[i].ok

\* how many times execute() announced and invoked _rollback_changes
RollbackCount ==
    Cardinality({i \in DOMAIN events :
                    events[i].op = "print" /\ events[i].arg = "rolling_back"})

\* the effects _rollback_changes and the finally clause may have, and no step has
IsCleanupEvent(e) ==
    \/ e.op = "run" /\ e.arg = "gh repo delete"
    \/ e.op \in {"exists", "rmtree"}
    \/ e.op = "chdir" /\ e.arg = "original_dir"

\* C12: rollback is invoked exactly once in a run where a step raises after
\* validation has passed, and never in a run that succeeds, is a dry run or fails
\* in validation; once a step has raised no further step is performed, nothing
\* but cleanup follows the rollback announcement, such a run ends by raising,
\* a run without a failing step ends by returning, and no run stops in between.
C12_RollbackExactlyOnce ==
    /\ RollbackCount <= 1
    /\ pc = "done" => exc = "none" /\ RollbackCount = 0
    /\ pc = "raised" =>
          /\ exc # "none"
          /\ RollbackCount = (IF exc = "validate_prerequisites" THEN 0 ELSE 1)
    /\ options.dry_run => RollbackCount = 0 /\ pc \in {"start", "done"}
    /\ exc # "none" => pc \in {"except", "finally", "raised"}
    /\ exc = "none" => pc \notin {"except", "raised"}
    /\ RollbackRan =>
          /\ pc \in {"finally", "raised"}
          /\ exc \notin {"none", "validate_prerequisites"}
          /\ \A i, j \in DOMAIN events :
                (events[i].op = "print" /\ events[i].arg = "rolling_back" /\ i < j)
                    => IsCleanupEvent(events[j])
    /\ pc \notin {"done", "raised"} => ENABLED Next

C12_Witness ==
    pc = "raised" /\ exc = "create_github_workflows" /\ RollbackCount = 1

\* the stage of execute() an effect belongs to; 0 for messages and cleanup
Phase(e) ==
    IF e.op = "run" /\ e.arg \in ProbeCommands THEN 1
    ELSE IF e.op \in {"mkdir", "chdir"} /\ e.arg = options.repo_name THEN 2
    ELSE IF e.op = "run" /\ e.arg = "git init" THEN 2
    ELSE IF e.op \in {"mkdir", "write"} THEN 3
    ELSE IF e.op = "run" /\ e.arg \in {"gh repo create", "gh api user --jq .login",
                                       "git remote add origin"} THEN 4
    ELSE IF e.op = "run" /\ e.arg \in {"gh project create", "gh project field-create",
                                       "gh repo edit --add-topic"} THEN 5
    ELSE IF e.op = "run" /\ e.arg \in {"git add", "git commit", "git push"} THEN 6
    ELSE 0

InStage(e) == Phase(e) > 0

\* every file the three generating steps write for the request
PlannedFileNames(o) ==
    LET ops == InitialFileOps(o) \o WorkflowOps(o)
               \o Opt(o.create_website, DocusaurusOps(o, cwd))
    IN  {ops[i].name : i \in {j \in DOMAIN ops : ops[j].kind = "write"}}

\* the same files, as paths relative to the repository directory
PlannedFilePaths(o) ==
    LET ops == InitialFileOps(o) \o WorkflowOps(o)
               \o Opt(o.create_website, DocusaurusOps(o, cwd))
    IN  {ops[i].rel : i \in {j \in DOMAIN ops : ops[j].kind = "write"}}

Wrote(name) ==
    \E i \in DOMAIN events :
        events[i].op = "write" /\ events[i].arg = name /\ events[i].ok

\* C13: in every non-dry run the effects occur in the order validation, local
\* directory creation and git init, file generation, remote creation, remote
\* configuration (project board, topics), commit and push; a stage starts only
\* after the one before it: the remote is created only when every file of the
\* request has been written, and nothing is committed before the remote-creation
\* and configuration steps have run.
C13_StepOrder ==
    /\ LET staged == SelectSeq(events, InStage)
       IN  \A i \in 1..(Len(staged) - 1) : Phase(staged[i]) <= Phase(staged[i + 1])
    /\ (\E i \in DOMAIN events : Phase(events[i]) >= 2) =>
          \A c \in {"git --version", "gh --version", "gh auth status", "gh api user"} :
              RanOk(c)
    /\ (\E i \in DOMAIN events : Phase(events[i]) >= 3) => RanOk("git init")
    /\ Ran("gh repo create") => \A n \in PlannedFileNames(options) : Wrote(n)
    /\ (\E i \in DOMAIN events : Phase(events[i]) >= 5) => Ran("gh repo create")
    /\ Ran("git add") =>
          /\ Ran("gh repo create")
          /\ options.create_project => Ran("gh project create")
          /\ options.topics # <<>> => Ran("gh repo edit --add-topic")

C13_Witness ==
    /\ pc = "done" /\ options.create_website /\ options.create_project
    /\ options.topics # <<>>
    /\ RanOk("git push") /\ RanOk("gh project create") /\ Wrote("docs/intro.md")

\* C14: a failing `git push` is not fatal: execute() still returns normally, rollback
\* is not invoked, neither the local repository nor the remote repository is
\* deleted, and the push is attempted once only.
C14_PushFailureIsWarning ==
    RanFailed("git push") =>
        /\ pc \in {"finally", "done"} /\ exc = "none"
        /\ Printed("could_not_push") /\ Printed("successfully_initialized")
        /\ ~RollbackRan
        /\ ~Ran("gh repo delete")
        /\ \A i \in DOMAIN events : events[i].op # "rmtree"
        /\ Cardinality({i \in DOMAIN events :
                           events[i].op = "run" /\ events[i].arg = "git push"}) = 1
        /\ LocalRepoDir \in dirs /\ (LocalRepoDir \o <<".git">>) \in dirs
        /\ \A rel \in PlannedFilePaths(options) : Resolve(LocalRepoDir, rel) \in files
        /\ github_repo_created => remote = "created"

C14_Witness ==
    RanFailed("git push") /\ pc = "done" /\ github_repo_created /\ remote = "created"

\* a best-effort call of remote configuration exited non-zero
BestEffortFailed ==
    \/ RanFailed("gh repo edit --add-topic")
    \/ RanFailed("gh project create")
    \/ RanFailed("gh project field-create")

\* C15: a failing topic call, project-board creation call or project field-creation
\* call never makes execute() raise or rollback run: neither configuration step
\* is ever the source of the propagating exception, after such a failure the run
\* goes on to commit and push, and if it is rolled back at all it is because the
\* commit step itself failed.
C15_BestEffortConfiguration ==
    /\ exc \notin {"create_github_project", "configure_repo"}
    /\ BestEffortFailed =>
          /\ pc \in {"configure_repo", "commit_and_push"} \/ Ran("git add")
          /\ pc \in {"except", "raised"} \/ RollbackRan => exc = "commit_and_push"

C15_Witness ==
    /\ RanFailed("gh repo edit --add-topic")
    /\ RanFailed("gh project field-create")
    /\ pc = "done" /\ RanOk("git push")

\* files the run has added, as paths relative to the repository directory
CreatedFiles ==
    {SubSeq(f, Len(LocalRepoDir) + 1, Len(f)) :
        f \in {g \in files \ before.files : IsPrefix(LocalRepoDir, g)}}

\* C18: with create_website false, a successful run writes exactly ci.yml, README.md
\* iff readme, .gitignore iff an ignore template was chosen, LICENSE iff a license
\* identifier was chosen (whichever), dependabot.yml iff enable_dependabot,
\* auto-version.yml, automerge.yml, release.yml iff their toggles, and both review
\* workflows iff enable_claude_review.
C18_GeneratedFileSet ==
    LET o == options
        when(cond, S) == IF cond THEN S ELSE {}
        wf(name) == <<".github", "workflows", name>>
    IN  (pc = "done" /\ ~o.dry_run /\ ~o.create_website /\ ~RollbackRan) =>
            /\ files \ before.files \subseteq {g \in files : IsPrefix(LocalRepoDir, g)}
            /\ CreatedFiles =
                   {wf("ci.yml")}
                   \cup when(o.readme, {<<"README.md">>})
                   \cup when(o.gitignore # "", {<<".gitignore">>})
                   \cup when(o.license # "", {<<"LICENSE">>})
                   \cup when(o.enable_dependabot, {<<".github", "dependabot.yml">>})
                   \cup when(o.enable_auto_version, {wf("auto-version.yml")})
                   \cup when(o.enable_auto_merge, {wf("automerge.yml")})
                   \cup when(o.enable_auto_release, {wf("release.yml")})
                   \cup when(o.enable_claude_review,
                             {wf("claude-code-review.yml"), wf("claude.yml")})

\* the file entries of the dry-run list, as paths relative to the repository directory
DryRunFiles(o) ==
    {DryRunFileList(o)[i].rel :
        i \in {j \in DOMAIN DryRunFileList(o) : DryRunFileList(o)[j].kind = "write"}}

\* the file entries a dry run has printed
PrintedFiles ==
    {SubSeq(events[i].path, 2, Len(events[i].path)) :
        i \in {j \in DOMAIN events : /\ events[j].op = "print"
                                      /\ events[j].arg = "would_create"
                                      /\ events[j].detail = "write"}}

\* C19: the file list a dry run prints names exactly the files a successful real
\* execution of the same request creates, and has as many file entries.
C19_DryRunListMatchesRealRun ==
    /\ (pc = "done" /\ options.dry_run) => PrintedFiles = DryRunFiles(options)
    /\ (pc = "done" /\ ~options.dry_run /\ ~RollbackRan) =>
          /\ DryRunFiles(options) = CreatedFiles
          /\ Cardinality(DryRunFiles(options)) = Cardinality(CreatedFiles)

\* C20 as stated: every prerequisite check whose subprocess exits non-zero or whose
\* output cannot be parsed makes validation raise; in particular an unparseable
\* Node.js version does.
C20_EveryFailedCheckIsFatal ==
    ((\E c \in ProbeCommands : RanFailed(c)) \/ Printed("node_version_unparsed"))
        => pc = "raised" /\ exc = "validate_prerequisites"

\* C20, amended: a non-zero exit of the git, gh, gh auth, gh api or node probe makes
\* validation raise; a non-zero exit of the project-permission probe and a Node.js
\* version that cannot be parsed are only reported, and validation goes on: it
\* then fails only if a later check does.
C20_FatalAndAdvisoryChecks ==
    /\ \A c \in ProbeCommands \ {"gh project list"} :
          RanFailed(c) => pc = "raised" /\ exc = "validate_prerequisites"
    /\ Printed("node_version_unparsed") =>
          /\ RanOk("node --version")
          /\ pc # "start" /\ exc # "validate_prerequisites"
    /\ RanFailed("gh project list") =>
          /\ Printed("project_creation_will_be_skipped")
                \/ Printed("project_access_check_failed")
          /\ pc # "start"
          /\ exc = "validate_prerequisites" =>
                options.create_website /\ Ran("node --version")

C20_Witness ==
    /\ Printed("node_version_unparsed")
    /\ RanFailed("gh project list")
    /\ pc = "done" /\ RanOk("git push")

\* position of each probe in _validate_prerequisites
ProbeRank(cmd) ==
    IF cmd = "git --version" THEN 1
    ELSE IF cmd = "gh --version" THEN 2
    ELSE IF cmd = "gh auth status" THEN 3
    ELSE IF cmd = "gh api user" THEN 4
    ELSE IF cmd = "gh project list" THEN 5
    ELSE 6

IsProbe(e) == e.op = "run" /\ e.arg \in ProbeCommands

\* C21: the fatal checks run in the order git, gh, gh authentication, GitHub API
\* and, only with create_website, Node.js; each runs only after the ones before it
\* passed, and a fatal check that fails is the last check of the run.
C21_FatalChecksInOrder ==
    LET probes == SelectSeq(events, IsProbe) IN
    /\ \A i \in 1..(Len(probes) - 1) :
          /\ ProbeRank(probes[i].arg) < ProbeRank(probes[i + 1].arg)
          /\ probes[i].ok \/ probes[i].arg = "gh project list"
    /\ Ran("gh --version") => RanOk("git --version")
    /\ Ran("gh auth status") => RanOk("gh --version")
    /\ Ran("gh api user") => RanOk("gh auth status")
    /\ Ran("node --version") => options.create_website /\ RanOk("gh api user")
    /\ (pc # "start" /\ ~options.dry_run) =>
          /\ Ran("git --version")
          /\ exc # "validate_prerequisites" =>
                /\ RanOk("gh api user")
                /\ options.create_website => RanOk("node --version")
    /\ exc = "validate_prerequisites" =>
          /\ Len(probes) > 0
          /\ events[Len(events)] = probes[Len(probes)]
          /\ ~probes[Len(probes)].ok \/ probes[Len(probes)].arg = "node --version"

C21_Witness ==
    pc = "raised" /\ RanOk("gh auth status") /\ RanFailed("gh api user")

\* C26: rollback never deletes a directory, or a file in it, that existed before
\* execute() started: every recursive deletion is of a directory this run created,
\* and everything that was on disk before the run is still there.
C26_RollbackSparesPreexisting ==
    /\ \A i \in DOMAIN events :
          (events[i].op = "rmtree" /\ events[i].ok) => events[i].path \notin before.dirs
    /\ before.dirs \subseteq dirs
    /\ before.files \subseteq files

\* C27: when the project-permission check of validation fails and the run prints
\* that project creation will be skipped, no `gh project create` call is made
\* later in the run.
C27_SkippedProjectIsNotCreated ==
    (RanFailed("gh project list") /\ Printed("project_creation_will_be_skipped"))
        => ~Ran("gh project create")

IsActionLine(e) == e.op = "print" /\ e.arg = "would_perform"

\* C28: the actions a dry run prints are numbered 1, 2, 3, ... with no gap and no
\* repeated number, with and without topics.
C28_DryRunActionsNumbered ==
    (options.dry_run /\ pc = "done") =>
        LET lines == SelectSeq(events, IsActionLine)
        IN  /\ Len(lines) = Len(DryRunActionNumbers(options))
            /\ \A i \in 1..Len(lines) : lines[i].path = <<i>>

----------------------------------------------------------------------------
(* Claims about parse_arguments, checked under ParseSpec *)

\* the value a supplied flag asks for: the text given, or what the switch stands for
CommandLineValue(key, a) ==
    IF key \in DOMAIN CliValues
    THEN (IF key = "topics" THEN SplitTopics(a.val[key]) ELSE a.val[key])
    ELSE key \in {"create_website", "enable_claude_review"}

\* C16: every config-backed option whose flag is not on the command line takes the
\* value of the configuration file when the key is there, else the hard-coded default.
C16_UnsuppliedTakesConfigOrDefault ==
    (result.status = "options" /\ ~UsesInteractiveMode(Namespace(args))) =>
        \A key \in ConfigKeys :
            FlagOf[key] \notin args.given =>
                result.value[key] = ConfigGet(config, key, HardDefault[key])

\* C17: every option that has a flag and a config key takes the command-line value
\* when the flag is supplied, whatever the configuration file holds for it.
C17_SuppliedFlagWins ==
    (result.status = "options" /\ ~UsesInteractiveMode(Namespace(args))) =>
        \A key \in ConfigKeys :
            FlagOf[key] \in args.given =>
                result.value[key] = CommandLineValue(key, args)

\* the warnings load_config_defaults printed about unknown keys
UnknownKeyWarnings ==
    {events[i].detail :
        i \in {j \in DOMAIN events : events[j].op = "print"
                                     /\ events[j].arg = "unknown_config_key"}}

\* C22: load_config_defaults returns the mapping of the file restricted to the
\* recognised keys: each recognised key is kept with its value, each unrecognised
\* key is dropped with one warning, and nothing is raised.
C22_ConfigRestrictedToKnownKeys ==
    (result.status # "pending" /\ config_file.kind = "mapping") =>
        /\ config.present = config_file.present
        /\ \A k \in config.present : k \in ConfigKeys /\ config.val[k] = config_file.val[k]
        /\ \A k \in config_file.unknown : k \notin config.present
        /\ UnknownKeyWarnings = config_file.unknown
        /\ Len(events) = Cardinality(config_file.unknown)
        /\ result.status \in {"options", "exit"}

C22_Witness ==
    /\ result.status = "options"
    /\ config_file.kind = "mapping"
    /\ config_file.unknown = {"owner", "template"}
    /\ config.present = {"topics"}

\* C23: when the file is missing, empty, unreadable, malformed or not a mapping, or
\* PyYAML is not installed, load_config_defaults returns the empty mapping without
\* raising, and parse_arguments gives every option whose flag is not supplied its
\* hard-coded default.
C23_UnusableConfigIsEmpty ==
    (result.status # "pending" /\ config_file.kind # "mapping") =>
        /\ config.present = {}
        /\ result.status \in {"options", "exit"}
        /\ (config_file.kind \in {"missing", "empty"}) = (events = <<>>)
        /\ (result.status = "options" /\ ~UsesInteractiveMode(Namespace(args))) =>
              \A key \in ConfigKeys :
                  FlagOf[key] \notin args.given => result.value[key] = HardDefault[key]

C23_Witness ==
    /\ result.status = "options" /\ ~UsesInteractiveMode(Namespace(args))
    /\ config_file.kind = "malformed"
    /\ Printed("error_reading_config")
    /\ result.value.private /\ result.value.license = NoneStr

\* C25: every argument list that contains --dry-run, with or without a repository
\* name or --interactive, yields options with dry_run true.
C25_DryRunFlagHonoured ==
    (result.status = "options" /\ "dry_run" \in args.given) => result.value.dry_run

----------------------------------------------------------------------------
(* Claims about GitHubInitialization, checked under TyperSpec *)

\* C2 (as claimed): rollback issues `gh repo delete` only for a repository this
\* run created: every deletion is preceded by a successful `gh repo create`.
C2_TyperRollbackDeletesOnlyOwnRepo ==
    \A i \in DOMAIN events :
        (events[i].op = "run" /\ events[i].arg = "gh repo delete") =>
            \E j \in 1..(i - 1) :
                events[j].op = "run" /\ events[j].arg = "gh repo create" /\ events[j].ok

\* C9 (as claimed): after a successful non-dry run the working directory equals
\* the working directory before the run.
C9_TyperCwdRestoredOnSuccess ==
    (pc = "done" /\ ~options.dry_run) => cwd = original_dir

\* C24: every fatal failure of the Typer command (a missing repository name, or an
\* exception of GitHubInitialization.execute()) ends the command with exit code 1
\* and without the success message; a run in which every step succeeds ends with
\* exit code 0 after the success message; and the command always ends.
C24_TyperExitCode ==
    /\ pc = "exit_1" =>
          /\ exc # "none"
          /\ ~Printed("command_success")
          /\ Printed("error_failed_to_initialize") /\ Printed("error_executing")
    /\ pc = "exit_0" =>
          /\ exc = "none" /\ options.repo_name # ""
          /\ Printed("command_success")
          /\ options.dry_run \/ RanOk("git push")
    /\ (exc # "none" \/ options.repo_name = "") =>
          /\ pc \in {"command", "except", "raised", "exit_1"}
          /\ ~Printed("command_success")
    /\ pc \notin {"exit_0", "exit_1"} => ENABLED TyperNext

C24_Witness ==
    pc = "exit_1" /\ exc = "create_github_repo" /\ RollbackRan /\ RanFailed("gh repo create")

----------------------------------------------------------------------------
(* Claims about LearnCommand, checked under LearnSpec *)

\* C29: execute() writes CLAUDE.md only after the user has confirmed the
\* integration and, in the same run, a backup holding the still-unmodified text of
\* the file has been created; and when the user declined, or chose the manual
\* integration mode, the text of CLAUDE.md is what it was when the run started.
C29_WriteOnlyAfterConfirmAndBackup ==
    [][LET original == before.claude_dir[claude_md_path]
           Answered(evs, prompt, answer, yes) ==
               \E i \in DOMAIN evs :
                   /\ evs[i].op = "ask" /\ evs[i].arg = prompt
                   /\ evs[i].detail = answer /\ evs[i].ok = yes
           BackedUp ==
               /\ backup_path # NoneStr
               /\ \E i \in DOMAIN events :
                     events[i].op = "copy2" /\ events[i].arg = backup_path /\ events[i].ok
               /\ claude_dir[backup_path] = original
       IN /\ claude_dir'[claude_md_path] # claude_dir[claude_md_path] =>
               /\ Answered(events, "confirm_integration", "", TRUE)
               /\ BackedUp
               /\ claude_dir[claude_md_path] = original
          /\ (\/ Answered(events', "confirm_integration", "", FALSE)
              \/ Answered(events', "integration_mode", "manual", TRUE)) =>
               claude_dir'[claude_md_path] = original]_vars

C29_Witness ==
    /\ pc = "returned"
    /\ claude_dir[claude_md_path] # before.claude_dir[claude_md_path]
    /\ backup_path = BackupName("t1")
    /\ before.claude_dir[backup_path] # Missing
    /\ claude_dir[backup_path] = before.claude_dir[claude_md_path]

\* the integration mode the user chose for an existing section, once asked
ChosenMode ==
    LET asked == SelectSeq(events, LAMBDA e : e.op = "ask" /\ e.arg = "integration_mode")
    IN IF asked = <<>> THEN "none" ELSE asked[Len(asked)].detail

\* C30: _integrate_existing_section only inserts. With the text of CLAUDE.md taken
\* character by character, the text written is the original text with the one
\* learning block put in at a single place, so that taking the block out gives the
\* original lines in the original order; in insert mode that place is right after
\* the selected header line, and in append mode right before the next line after
\* the selected header that starts with '#', or the end of the file when no such
\* line follows.
C30_IntegrationOnlyInserts ==
    (selected_section.type = "existing" /\ ChosenMode \in {"append", "insert"}) =>
        LET original == before.claude_dir[claude_md_path]
            written == claude_dir[claude_md_path]
            LineStarts == {p \in 1..Len(original) : p = 1 \/ original[p - 1] = NL}
            header == CHOOSE p \in LineStarts :
                         Cardinality({q \in LineStarts : q <= p}) = selected_section.line_num
            line_ends == {q \in header..Len(original) : original[q] = NL} \cup {Len(original)}
            header_end == CHOOSE q \in line_ends : \A r \in line_ends : q <= r
            later == {q \in LineStarts : q > header /\ original[q] = "#"}
            place == IF ChosenMode = "insert" THEN header_end
                     ELSE IF later = {} THEN Len(original)
                     ELSE (CHOOSE q \in later : \A r \in later : q <= r) - 1
        IN /\ Cardinality(LineStarts) >= selected_section.line_num
           /\ original[header] = "#"
           /\ written = SubSeq(original, 1, place) \o LearningBlock
                           \o SubSeq(original, place + 1, Len(original))

C30_Witness ==
    /\ pc = "returned"
    /\ ChosenMode = "append"
    /\ selected_section.type = "existing"
    /\ selected_section.line_num = 2
    /\ sections[Len(sections)].line_num > 2
    /\ claude_dir[claude_md_path] # before.claude_dir[claude_md_path] \o LearningBlock
    /\ Len(claude_dir[claude_md_path]) = Len(before.claude_dir[claude_md_path]) + Len(LearningBlock)

====
